---- MODULE Spec2Model ----
(***************************************************************************)
(* Model of pisa/utils/utils.py: binning comparison (is_equal_binning),    *)
(* integer sub-binning detection (subbinning), block rebinning             *)
(* (integer_rebin_map), map smoothing (get_smoothed_map) and the binning   *)
(* consistency check (get_binning / check_binning).                        *)
(*                                                                         *)
(* Bin edges are integers.  A number held in a map is a fraction           *)
(* [num, den] with den > 0, in lowest terms; [num |-> 0, den |-> 0] is     *)
(* NaN.  The arithmetic of a run is fixed by the variable prec: 0 is       *)
(* real-number arithmetic, p > 0 is binary floating point with a p-bit     *)
(* significand, round to nearest, ties to even (IEEE 754 double is p=53).  *)
(***************************************************************************)
EXTENDS Integers, Sequences, FiniteSets, TLC

VARIABLES
    pc,           \* which call is pending, or "done"
    coarse_bins,  \* subbinning / get_smoothed_map: [ebinsSM, czbinsSM]
    fine_bins,    \* subbinning / get_smoothed_map: [ebinsLT, czbinsLT]
    rebin_info,   \* result of subbinning, or the plan given to integer_rebin_map
    prob_map,     \* the fine map
    result,       \* the map returned by get_smoothed_map / integer_rebin_map
    prec,         \* arithmetic of the run (see above)
    eset,         \* get_binning's default argument eset=[] (one list per process)
    czset,        \* get_binning's default argument czset=[]
    data,         \* argument of the last check_binning call
    outcome,      \* what the last check_binning call returned or raised
    ncalls        \* number of check_binning calls made in the process

vars == <<pc, coarse_bins, fine_bins, rebin_info, prob_map, result, prec,
          eset, czset, data, outcome, ncalls>>

(***************************************************************************)
(* Bounds of the model.                                                    *)
(***************************************************************************)
\* largest edge value of a single-axis subbinning input (edges in 0..MaxEdge)
MaxEdge == 6
\* largest edge value of a two-axis subbinning input
MaxEdge2 == 3
\* significand bits of the floating-point arithmetic (prec = Precision)
Precision == 2
\* largest shape of a map given to integer_rebin_map
MaxRows == 2
MaxCols == 2
\* get_smoothed_map inputs: energy edges in 1..MaxE, coszen edges in -1..MaxCz
MaxE == 3
MaxCz == 1
\* check_binning: calls per process, leaf maps per argument, and the edges
\* of the leaves' axes (energy in 1..MaxLeafE, coszen in -1..MaxLeafCz)
MaxCalls == 2
MaxLeaves == 2
MaxLeafE == 3
MaxLeafCz == 1

None == "None"

(***************************************************************************)
(* Generic helpers.                                                        *)
(***************************************************************************)
Abs(x) == IF x < 0 THEN -x ELSE x

Min(a, b) == IF a < b THEN a ELSE b

Max(a, b) == IF a > b THEN a ELSE b

SetMin(S) == CHOOSE x \in S : \A y \in S : x <= y

RECURSIVE SetToSeq(_)
\* the elements of a set of integers, ascending
SetToSeq(S) ==
    IF S = {} THEN <<>>
    ELSE LET m == SetMin(S) IN <<m>> \o SetToSeq(S \ {m})

\* the strictly increasing edge sequences with at least 2 edges over lo..hi
Axes(lo, hi) == { SetToSeq(S) : S \in { T \in SUBSET (lo..hi) : Cardinality(T) >= 2 } }

(***************************************************************************)
(* Python's s[start:stop:step] for step > 0 on a sequence of length n:     *)
(* the 0-based indices selected.  Negative bounds count from the end and   *)
(* bounds outside the sequence are clamped.                                *)
(***************************************************************************)
SliceBound(n, b) == IF b < 0 THEN Max(b + n, 0) ELSE Min(b, n)

SliceIndices(n, start, stop, step) ==
    LET lo == SliceBound(n, start)
        hi == SliceBound(n, stop)
        cnt == IF hi > lo THEN ((hi - lo - 1) \div step) + 1 ELSE 0
    IN  [k \in 1..cnt |-> lo + (k - 1) * step]

Slice(s, start, stop, step) ==
    LET idx == SliceIndices(Len(s), start, stop, step)
    IN  [k \in 1..Len(idx) |-> s[idx[k] + 1]]

(***************************************************************************)
(* is_equal_binning(edges1, edges2, maxdev=1e-8), utils.py:46-49.          *)
(* maxdev is 1/MaxDevInv; on integer edges |d| < 1/MaxDevInv is            *)
(* |d| * MaxDevInv < 1.                                                    *)
(***************************************************************************)
MaxDevInv == 100000000

is_equal_binning(edges1, edges2) ==
    IF Len(edges1) # Len(edges2) THEN FALSE
    ELSE \A i \in 1..Len(edges1) : Abs(edges1[i] - edges2[i]) * MaxDevInv < 1

(***************************************************************************)
(* subbinning(coarse_bins, fine_bins), utils.py:65-92.  The three nested   *)
(* for loops with their break / else clauses, one operator per loop.       *)
(* Integer division is Python 2's floor division of non-negative ints.     *)
(***************************************************************************)
NoMatch == <<>>

RECURSIVE RebinLoopWide(_, _, _, _)
\* variant: the factor range is bounded by the last index the slice reads
RebinLoopWide(crs_ax, fn_ax, start, rebin) ==
    IF rebin > (Len(fn_ax) - start - 1) \div (Len(crs_ax) - 1) THEN NoMatch
    ELSE LET stop == start + Len(crs_ax) * rebin IN
         IF is_equal_binning(crs_ax, Slice(fn_ax, start, stop, rebin))
         THEN <<start, stop - rebin, rebin>>
         ELSE RebinLoopWide(crs_ax, fn_ax, start, rebin + 1)

RECURSIVE RebinLoopStop(_, _, _, _)
\* faulty variant: the slice's own stop is stored in the plan
RebinLoopStop(crs_ax, fn_ax, start, rebin) ==
    IF rebin > (Len(fn_ax) - start) \div Len(crs_ax) THEN NoMatch
    ELSE LET stop == start + Len(crs_ax) * rebin IN
         IF is_equal_binning(crs_ax, Slice(fn_ax, start, stop, rebin))
         THEN <<start, stop, rebin>>
         ELSE RebinLoopStop(crs_ax, fn_ax, start, rebin + 1)

RECURSIVE RebinLoopFrom(_, _, _, _)
\* lines 77-83: for rebin in range(1, (len(fn_ax)-start)/len(crs_ax)+1)
RebinLoopFrom(crs_ax, fn_ax, start, rebin) ==
    IF rebin > (Len(fn_ax) - start) \div Len(crs_ax) THEN NoMatch
    ELSE LET stop == start + Len(crs_ax) * rebin IN
         IF is_equal_binning(crs_ax, Slice(fn_ax, start, stop, rebin))
         THEN <<start, stop - rebin, rebin>>
         ELSE RebinLoopFrom(crs_ax, fn_ax, start, rebin + 1)

RebinLoop(crs_ax, fn_ax, start, rebin) == RebinLoopFrom(crs_ax, fn_ax, start, rebin)

RECURSIVE StartLoop(_, _, _)
\* lines 75-85: for start in range(len(fn_ax)-len(crs_ax)); a match breaks
\* out, an exhausted range leaves NoMatch (the loop's else clause)
StartLoop(crs_ax, fn_ax, start) ==
    IF start >= Len(fn_ax) - Len(crs_ax) THEN NoMatch
    ELSE LET m == RebinLoop(crs_ax, fn_ax, start, 1) IN
         IF m # NoMatch THEN m
         ELSE StartLoop(crs_ax, fn_ax, start + 1)

RECURSIVE AxisLoop(_, _, _, _)
\* lines 73-86: for crs_ax, fn_ax in zip(coarse_bins, fine_bins); the first
\* axis without a match ends the loop (line 86)
AxisLoop(coarse, fine, k, info) ==
    IF k > Min(Len(coarse), Len(fine)) THEN info
    ELSE LET m == StartLoop(coarse[k], fine[k], 0) IN
         IF m = NoMatch THEN info
         ELSE AxisLoop(coarse, fine, k + 1, Append(info, m))

\* lines 88-92: the plan when every axis matched, else False
subbinning(coarse, fine) ==
    LET info == AxisLoop(coarse, fine, 1, <<>>) IN
    IF Len(info) = Len(coarse)
    THEN [found |-> TRUE, plan |-> info]
    ELSE [found |-> FALSE, plan |-> <<>>]

(***************************************************************************)
(* Specification SpecSub: one call of subbinning on a one-axis or a        *)
(* two-axis binning.                                                       *)
(***************************************************************************)
InitSub ==
    /\ pc = "subbinning"
    /\ \/ \E c \in Axes(0, MaxEdge), f \in Axes(0, MaxEdge) :
              coarse_bins = <<c>> /\ fine_bins = <<f>>
       \/ \E c1 \in Axes(0, MaxEdge2), c2 \in Axes(0, MaxEdge2),
             f1 \in Axes(0, MaxEdge2), f2 \in Axes(0, MaxEdge2) :
              coarse_bins = <<c1, c2>> /\ fine_bins = <<f1, f2>>
    /\ rebin_info = None
    /\ prob_map = None /\ result = None /\ prec = 0
    /\ eset = <<>> /\ czset = <<>> /\ data = None /\ outcome = None /\ ncalls = 0

CallSubbinning ==
    /\ pc = "subbinning"
    /\ rebin_info' = subbinning(coarse_bins, fine_bins)
    /\ pc' = "done"
    /\ UNCHANGED <<coarse_bins, fine_bins, prob_map, result, prec,
                   eset, czset, data, outcome, ncalls>>

NextSub == CallSubbinning

SpecSub == InitSub /\ [][NextSub]_vars

(***************************************************************************)
(* Numbers.  Frac(n, d) is n/d in lowest terms.  Round(p, x) is x rounded  *)
(* to a p-bit significand, round to nearest, ties to even, with no bound   *)
(* on the exponent; p = 0 leaves x as it is.                               *)
(***************************************************************************)
RECURSIVE GCD(_, _)
GCD(a, b) == IF b = 0 THEN a ELSE GCD(b, a % b)

RECURSIVE Pow2(_)
Pow2(k) == IF k = 0 THEN 1 ELSE 2 * Pow2(k - 1)

Frac(n, d) ==
    LET g == GCD(Abs(n), d) IN [num |-> n \div g, den |-> d \div g]

IntNum(n) == [num |-> n, den |-> 1]

NaN == [num |-> 0, den |-> 0]

RECURSIVE Normalize(_, _, _, _)
\* scale a/d by a power of two, 2^-e, into [2^(p-1), 2^p)
Normalize(p, a, d, e) ==
    IF a < Pow2(p - 1) * d THEN Normalize(p, 2 * a, d, e - 1)
    ELSE IF a >= Pow2(p) * d THEN Normalize(p, a, 2 * d, e + 1)
    ELSE <<a, d, e>>

Round(p, x) ==
    IF p = 0 \/ x.den = 0 \/ x.num = 0 THEN x
    ELSE LET sgn == IF x.num < 0 THEN -1 ELSE 1
             ade == Normalize(p, Abs(x.num), x.den, 0)
             q == ade[1] \div ade[2]
             r == ade[1] % ade[2]
             m == IF 2 * r < ade[2] THEN q
                  ELSE IF 2 * r > ade[2] THEN q + 1
                  ELSE IF q % 2 = 0 THEN q ELSE q + 1
         IN  IF ade[3] >= 0 THEN Frac(sgn * m * Pow2(ade[3]), 1)
             ELSE Frac(sgn * m, Pow2(-ade[3]))

\* x + y in the arithmetic p
FAdd(p, x, y) ==
    IF x.den = 0 \/ y.den = 0 THEN NaN
    ELSE Round(p, Frac(x.num * y.den + y.num * x.den, x.den * y.den))

\* x / c for a count c >= 0 in the arithmetic p; 0/0 is NaN, x/0 is +-inf
FDiv(p, x, c) ==
    IF x.den = 0 THEN NaN
    ELSE IF c = 0
         THEN [num |-> IF x.num > 0 THEN 1 ELSE IF x.num < 0 THEN -1 ELSE 0,
               den |-> 0]
         ELSE Round(p, Frac(x.num, x.den * c))

RECURSIVE SumFrom(_, _, _, _)
\* acc + xs[k] + xs[k+1] + ..., added one by one from the left
SumFrom(p, xs, k, acc) ==
    IF k > Len(xs) THEN acc
    ELSE SumFrom(p, xs, k + 1, FAdd(p, acc, xs[k]))

(***************************************************************************)
(* 2-D arrays are sequences of rows.                                       *)
(***************************************************************************)
NRows(a) == Len(a)

NCols(a) == Len(a[1])

Transpose(a) == [j \in 1..NCols(a) |-> [i \in 1..NRows(a) |-> a[i][j]]]

\* np.rollaxis(a, axis) on a 2-D array: axis 1 moves to the front
RollAxis(a, axis) == IF axis = 1 THEN Transpose(a) ELSE a

(***************************************************************************)
(* integer_rebin_map(prob_map, rebin_info), utils.py:177-193.              *)
(***************************************************************************)
\* faulty variant: the stacked slices are summed, not averaged
SumSlices(p, rmap, start, stop, rebin) ==
    LET slices == [i \in 1..rebin |-> Slice(rmap, start + (i - 1), stop, rebin)]
    IN  [j \in 1..Len(slices[1]) |->
            [m \in 1..NCols(rmap) |->
                SumFrom(p, [i \in 1..rebin |-> slices[i][j][m]], 2,
                        slices[1][j][m])]]

\* line 190: np.average([rmap[start+i:stop:rebin] for i in range(rebin)],
\* axis=0): the slices stacked, summed along the stack from its first
\* element on, and divided by their number
AverageSlices(p, rmap, start, stop, rebin) ==
    LET slices == [i \in 1..rebin |-> Slice(rmap, start + (i - 1), stop, rebin)]
    IN  [j \in 1..Len(slices[1]) |->
            [m \in 1..NCols(rmap) |->
                FDiv(p, SumFrom(p, [i \in 1..rebin |-> slices[i][j][m]], 2,
                                slices[1][j][m]),
                     rebin)]]

RECURSIVE RebinAxes(_, _, _, _)
\* lines 186-191: for start, stop, rebin in np.array(rebin_info)[::-1]
RebinAxes(p, rmap, info, k) ==
    IF k = 0 THEN rmap
    ELSE RebinAxes(p,
             AverageSlices(p, RollAxis(rmap, Len(info) - 1),
                           info[k][1], info[k][2], info[k][3]),
             info, k - 1)

integer_rebin_map(p, map, info) == RebinAxes(p, map, info, Len(info))

(***************************************************************************)
(* Specification SpecRebin: one call of integer_rebin_map, in real-number  *)
(* arithmetic, on a 2-D map and a two-entry plan.  A plan entry is         *)
(* (start, start + factor * c, factor) for c >= 1 target cells; it may     *)
(* reach outside the map.  Plans whose slices are empty or of unequal      *)
(* length (np.average fails or broadcasts on them, depending on the numpy  *)
(* version) are left out.                                                  *)
(***************************************************************************)
MapVals == { IntNum(1), IntNum(Pow2(Precision)) }

Maps(r, c) == [1..r -> [1..c -> MapVals]]

\* the map of the documentation's example
ExampleMap ==
    << <<IntNum(1), IntNum(2)>>, <<IntNum(3), IntNum(4)>>,
       <<IntNum(5), IntNum(6)>>, <<IntNum(7), IntNum(8)>> >>

\* the plan entries for an axis of n cells
AxisPlans(n) ==
    { t \in { <<s, s + f * c, f>> : s \in (-1)..(n - 1), f \in 1..n, c \in 1..(n + 1) } :
        \A i \in 0..(t[3] - 1) :
            /\ Len(SliceIndices(n, t[1] + i, t[2], t[3])) >= 1
            /\ Len(SliceIndices(n, t[1] + i, t[2], t[3]))
                 = Len(SliceIndices(n, t[1], t[2], t[3])) }

InitRebin ==
    /\ pc = "integer_rebin_map"
    /\ \/ \E r \in 1..MaxRows, c \in 1..MaxCols : prob_map \in Maps(r, c)
       \/ prob_map = ExampleMap
    /\ \E p0 \in AxisPlans(NRows(prob_map)), p1 \in AxisPlans(NCols(prob_map)) :
           rebin_info = <<p0, p1>>
    /\ coarse_bins = None /\ fine_bins = None /\ result = None /\ prec = 0
    /\ eset = <<>> /\ czset = <<>> /\ data = None /\ outcome = None /\ ncalls = 0

CallIntegerRebinMap ==
    /\ pc = "integer_rebin_map"
    /\ result' = integer_rebin_map(prec, prob_map, rebin_info)
    /\ pc' = "done"
    /\ UNCHANGED <<coarse_bins, fine_bins, rebin_info, prob_map, prec,
                   eset, czset, data, outcome, ncalls>>

NextRebin == CallIntegerRebinMap

SpecRebin == InitRebin /\ [][NextRebin]_vars

(***************************************************************************)
(* is_logarithmic(edges, maxdev=1e-5), utils.py:39-43.  A negative edge    *)
(* returns False.  A first edge of 0 makes log10 give -inf and the         *)
(* reference edges NaN, and NaN < maxdev is False.  Otherwise the          *)
(* reference is edges[0] * (edges[-1]/edges[0])^(i/(n-1)); an integer edge *)
(* e differs from it by 0 or by at least 1/((n-1) * max^(n-2)), far above  *)
(* 1e-5 for the edges of this model, so the test is                        *)
(* e^(n-1) = edges[0]^(n-1-i) * edges[-1]^i.                               *)
(***************************************************************************)
RECURSIVE Pow(_, _)
Pow(b, k) == IF k = 0 THEN 1 ELSE b * Pow(b, k - 1)

is_logarithmic(edges) ==
    LET n == Len(edges) IN
    IF \E i \in 1..n : edges[i] < 0 THEN FALSE
    ELSE IF edges[1] = 0 THEN FALSE
    ELSE \A i \in 1..n :
            Pow(edges[i], n - 1) = Pow(edges[1], n - i) * Pow(edges[n], i - 1)

(***************************************************************************)
(* get_bin_centers(edges), utils.py:18-24.  A center is kept as the pair   *)
(* of edges it lies between and the mean taken: sqrt(lo*hi) when log is    *)
(* TRUE, (lo+hi)/2 otherwise; it is only ever compared with edges.         *)
(***************************************************************************)
\* faulty variant: the upper edge of every bin is taken as its center
UpperEdgeCenters(edges) ==
    [i \in 1..(Len(edges) - 1) |->
        [log |-> FALSE, lo |-> edges[i + 1], hi |-> edges[i + 1]]]

get_bin_centers(edges) ==
    IF is_logarithmic(edges)
    THEN [i \in 1..(Len(edges) - 1) |->
             [log |-> TRUE, lo |-> edges[i], hi |-> edges[i + 1]]]
    ELSE [i \in 1..(Len(edges) - 1) |->
             [log |-> FALSE, lo |-> edges[i], hi |-> edges[i + 1]]]

\* center >= e (a geometric center is positive)
CenterGeq(c, e) ==
    IF c.log THEN e < 0 \/ c.lo * c.hi >= e * e
    ELSE c.lo + c.hi >= 2 * e

\* center = e
CenterEq(c, e) ==
    IF c.log THEN e >= 0 /\ c.lo * c.hi = e * e
    ELSE c.lo + c.hi = 2 * e

(***************************************************************************)
(* np.histogram2d(elist, czlist, weights, bins=[ebinsSM, czbinsSM])[0]     *)
(* as get_smoothed_map uses it (utils.py:168-170): a sample's bin on an    *)
(* axis is the number of edges <= it; a sample on the last edge belongs to *)
(* the last bin; samples outside the edges are dropped; weights are added  *)
(* to their bin in sample order, from 0.                                   *)
(***************************************************************************)
\* faulty variant: a sample on the last edge is dropped
BinIndexOpen(edges, c) ==
    Cardinality({ i \in 1..Len(edges) : CenterGeq(c, edges[i]) })

BinIndex(edges, c) ==
    LET cnt == Cardinality({ i \in 1..Len(edges) : CenterGeq(c, edges[i]) })
    IN  IF CenterEq(c, edges[Len(edges)]) THEN cnt - 1 ELSE cnt

\* the samples of cell (i, j), in sample order
CellSamples(samples, ebins, czbins, i, j) ==
    LET InCell(smp) == BinIndex(ebins, smp.e) = i /\ BinIndex(czbins, smp.cz) = j
    IN  SelectSeq(samples, InCell)

Histogram2dWeights(p, samples, ebins, czbins) ==
    [i \in 1..(Len(ebins) - 1) |->
        [j \in 1..(Len(czbins) - 1) |->
            LET in == CellSamples(samples, ebins, czbins, i, j) IN
            SumFrom(p, [k \in 1..Len(in) |-> in[k].w], 1, IntNum(0))]]

Histogram2dCounts(samples, ebins, czbins) ==
    [i \in 1..(Len(ebins) - 1) |->
        [j \in 1..(Len(czbins) - 1) |->
            Len(CellSamples(samples, ebins, czbins, i, j))]]

(***************************************************************************)
(* get_smoothed_map(prob_map, ebinsLT, czbinsLT, ebinsSM, czbinsSM),       *)
(* utils.py:135-174.                                                       *)
(***************************************************************************)
\* lines 159-166: one (energy center, coszen center, weight) sample per fine
\* cell, energy index outermost
SampleList(map, ecenLT, czcenLT) ==
    [k \in 1..(Len(ecenLT) * Len(czcenLT)) |->
        LET ie == ((k - 1) \div Len(czcenLT)) + 1
            icz == ((k - 1) % Len(czcenLT)) + 1
        IN  [e |-> ecenLT[ie], cz |-> czcenLT[icz], w |-> map[ie][icz]]]

\* lines 156-172: the fallback, np.divide(map_sum_wts, map_num)
HistogramSmoothing(p, map, ebinsLT, czbinsLT, ebinsSM, czbinsSM) ==
    LET samples == SampleList(map, get_bin_centers(ebinsLT), get_bin_centers(czbinsLT))
        map_sum_wts == Histogram2dWeights(p, samples, ebinsSM, czbinsSM)
        map_num == Histogram2dCounts(samples, ebinsSM, czbinsSM)
    IN  [i \in 1..(Len(ebinsSM) - 1) |->
            [j \in 1..(Len(czbinsSM) - 1) |->
                FDiv(p, map_sum_wts[i][j], map_num[i][j])]]

get_smoothed_map(p, map, ebinsLT, czbinsLT, ebinsSM, czbinsSM) ==
    LET info == subbinning(<<ebinsSM, czbinsSM>>, <<ebinsLT, czbinsLT>>) IN
    IF info.found
    THEN integer_rebin_map(p, map, info.plan)
    ELSE HistogramSmoothing(p, map, ebinsLT, czbinsLT, ebinsSM, czbinsSM)

(***************************************************************************)
(* Specifications SpecSmooth (real-number arithmetic) and SpecSmoothFloat  *)
(* (floating point): one call of get_smoothed_map.  fine_bins is           *)
(* [ebinsLT, czbinsLT], coarse_bins is [ebinsSM, czbinsSM], rebin_info is  *)
(* the call's local rebin_info.  The two actions are the two branches of   *)
(* line 149.                                                               *)
(***************************************************************************)
InitSmoothWith(p) ==
    /\ pc = "get_smoothed_map"
    /\ prec = p
    /\ fine_bins \in Axes(1, MaxE) \X Axes(-1, MaxCz)
    /\ coarse_bins \in Axes(1, MaxE) \X Axes(-1, MaxCz)
    /\ prob_map \in Maps(Len(fine_bins[1]) - 1, Len(fine_bins[2]) - 1)
    /\ rebin_info = None /\ result = None
    /\ eset = <<>> /\ czset = <<>> /\ data = None /\ outcome = None /\ ncalls = 0

SmoothByRebinning ==
    /\ pc = "get_smoothed_map"
    /\ subbinning(coarse_bins, fine_bins).found
    /\ rebin_info' = subbinning(coarse_bins, fine_bins)
    /\ result' = get_smoothed_map(prec, prob_map, fine_bins[1], fine_bins[2],
                                  coarse_bins[1], coarse_bins[2])
    /\ pc' = "done"
    /\ UNCHANGED <<coarse_bins, fine_bins, prob_map, prec,
                   eset, czset, data, outcome, ncalls>>

SmoothByHistogram ==
    /\ pc = "get_smoothed_map"
    /\ ~subbinning(coarse_bins, fine_bins).found
    /\ rebin_info' = subbinning(coarse_bins, fine_bins)
    /\ result' = get_smoothed_map(prec, prob_map, fine_bins[1], fine_bins[2],
                                  coarse_bins[1], coarse_bins[2])
    /\ pc' = "done"
    /\ UNCHANGED <<coarse_bins, fine_bins, prob_map, prec,
                   eset, czset, data, outcome, ncalls>>

NextSmooth == SmoothByRebinning \/ SmoothByHistogram

SpecSmooth == InitSmoothWith(0) /\ [][NextSmooth]_vars

SpecSmoothFloat == InitSmoothWith(Precision) /\ [][NextSmooth]_vars

(***************************************************************************)
(* get_binning(d, iterate=True, eset=[], czset=[]), utils.py:95-117, as    *)
(* check_binning calls it.  A node of the nested dict is a leaf map        *)
(* (keys czbins, ebins, map), a dict (its values in iteration order) or a  *)
(* value that is no dict.  The lists are extended in place (+=), and the   *)
(* same two lists are handed down the recursion.                           *)
(***************************************************************************)
RECURSIVE get_binning(_, _, _)
get_binning(d, es, czs) ==
    IF d.kind = "other" THEN <<es, czs>>                           \* line 100
    ELSE IF d.kind = "map"
    THEN <<Append(es, d.ebins), Append(czs, d.czbins)>>            \* lines 108-109
    ELSE LET Walk[k \in 0..Len(d.values)] ==                       \* lines 112-113
                 IF k = 0 THEN <<es, czs>>
                 ELSE get_binning(d.values[k], Walk[k - 1][1], Walk[k - 1][2])
         IN  Walk[Len(d.values)]

(***************************************************************************)
(* check_binning(data), utils.py:120-131.  The call passes neither eset    *)
(* nor czset, so get_binning works on its default lists: the two list      *)
(* objects made once, when the function is defined, and kept by the        *)
(* process (variables eset, czset).                                        *)
(***************************************************************************)
\* lines 127-128: np.alltrue([is_equal_binning(binset[0], bins)
\*                            for bins in binset[1:]])
AllEqualToFirst(binset) ==
    \A k \in 2..Len(binset) : is_equal_binning(binset[1], binset[k])

\* lines 126-131, on the lists as get_binning left them
CheckOutcome(es, czs) ==
    IF ~AllEqualToFirst(es) THEN [kind |-> "raise", label |-> "energy"]
    ELSE IF ~AllEqualToFirst(czs) THEN [kind |-> "raise", label |-> "coszen"]
    ELSE IF es = <<>> THEN [kind |-> "raise", label |-> "IndexError"]
    ELSE [kind |-> "return", ebins |-> es[1], czbins |-> czs[1]]

(***************************************************************************)
(* Specification SpecCheck: up to MaxCalls calls of check_binning in one   *)
(* process.                                                                *)
(***************************************************************************)
LeafMaps ==
    { [kind |-> "map", ebins |-> e, czbins |-> cz] :
        e \in Axes(1, MaxLeafE), cz \in Axes(-1, MaxLeafCz) }

\* the leaves directly in the dict (nested = FALSE), or one level down
\* beside a value that is no dict
DataDict(leaves, nested) ==
    IF nested
    THEN [kind |-> "dict",
          values |-> << [kind |-> "other"], [kind |-> "dict", values |-> leaves] >>]
    ELSE [kind |-> "dict", values |-> leaves]

InitCheck ==
    /\ pc = "check_binning"
    /\ eset = <<>> /\ czset = <<>>
    /\ data = None /\ outcome = None /\ ncalls = 0
    /\ coarse_bins = None /\ fine_bins = None /\ rebin_info = None
    /\ prob_map = None /\ result = None /\ prec = 0

CheckBinning(d) ==
    LET sets == get_binning(d, eset, czset) IN
    /\ pc = "check_binning"
    /\ data' = d
    /\ eset' = sets[1]
    /\ czset' = sets[2]
    /\ outcome' = CheckOutcome(sets[1], sets[2])
    /\ ncalls' = ncalls + 1
    /\ UNCHANGED <<pc, coarse_bins, fine_bins, rebin_info, prob_map, result, prec>>

CheckBinningReturns ==
    /\ ncalls < MaxCalls
    /\ \E n \in 0..MaxLeaves, nested \in BOOLEAN :
         \E leaves \in [1..n -> LeafMaps] :
             LET d == DataDict(leaves, nested) IN
             /\ CheckOutcome(get_binning(d, eset, czset)[1],
                             get_binning(d, eset, czset)[2]).kind = "return"
             /\ CheckBinning(d)

CheckBinningRaises ==
    /\ ncalls < MaxCalls
    /\ \E n \in 0..MaxLeaves, nested \in BOOLEAN :
         \E leaves \in [1..n -> LeafMaps] :
             LET d == DataDict(leaves, nested) IN
             /\ CheckOutcome(get_binning(d, eset, czset)[1],
                             get_binning(d, eset, czset)[2]).kind = "raise"
             /\ CheckBinning(d)

NextCheck == CheckBinningReturns \/ CheckBinningRaises

SpecCheck == InitCheck /\ [][NextCheck]_vars

(***************************************************************************)
(* Claims about subbinning (checked under SpecSub).                        *)
(***************************************************************************)
\* fine is coarse with every bin cut into k bins
IsSubdivision(coarse_ax, fine_ax, k) ==
    /\ Len(fine_ax) = (Len(coarse_ax) - 1) * k + 1
    /\ \A j \in 0..(Len(coarse_ax) - 1) : fine_ax[j * k + 1] = coarse_ax[j + 1]

\* C1: for a one-axis binning whose fine axis is the coarse axis with every
\* bin subdivided into k >= 2 bins, subbinning returns the plan entry
\* start = 0, stop = (n-1)*k, factor = k (n = number of coarse edges).
C1_SubdivisionDetected ==
    (pc = "done" /\ Len(coarse_bins) = 1) =>
        \A k \in 2..MaxEdge :
            IsSubdivision(coarse_bins[1], fine_bins[1], k) =>
                /\ rebin_info.found
                /\ rebin_info.plan[1] = <<0, (Len(coarse_bins[1]) - 1) * k, k>>

\* C6: for a one-axis binning whose coarse axis is identical to its fine
\* axis, subbinning finds a plan, with start = 0 and factor = 1.
C6_IdenticalAxisDetected ==
    (pc = "done" /\ Len(coarse_bins) = 1 /\ coarse_bins[1] = fine_bins[1]) =>
        /\ rebin_info.found
        /\ rebin_info.plan[1][1] = 0
        /\ rebin_info.plan[1][3] = 1

\* the edges fine_ax[start], fine_ax[start+factor], ... (n of them)
StridedEdges(fine_ax, start, factor, n) ==
    [j \in 1..n |-> fine_ax[start + (j - 1) * factor + 1]]

\* the (start, factor) pairs of the reference scan whose strided slice is
\* the coarse axis
Candidates(coarse_ax, fine_ax) ==
    { sf \in (0..(Len(fine_ax) - Len(coarse_ax) - 1)) \X (1..Len(fine_ax)) :
        /\ sf[2] <= (Len(fine_ax) - sf[1]) \div Len(coarse_ax)
        /\ StridedEdges(fine_ax, sf[1], sf[2], Len(coarse_ax)) = coarse_ax }

\* the first candidate: start ascending, factor ascending within a start
FirstCandidate(coarse_ax, fine_ax) ==
    CHOOSE sf \in Candidates(coarse_ax, fine_ax) :
        \A o \in Candidates(coarse_ax, fine_ax) :
            sf[1] < o[1] \/ (sf[1] = o[1] /\ sf[2] <= o[2])

C10_PlanWellFormed ==
    (pc = "done" /\ rebin_info.found) =>
        \A k \in 1..Len(rebin_info.plan) :
            LET start == rebin_info.plan[k][1]
                stop == rebin_info.plan[k][2]
                factor == rebin_info.plan[k][3]
                nfine == Len(fine_bins[k]) - 1
                ncoarse == Len(coarse_bins[k]) - 1
            IN  /\ factor >= 1
                /\ start >= 0
                /\ stop <= nfine
                /\ stop - start = factor * ncoarse
                /\ \A i \in 0..(factor - 1) :
                       LET idx == SliceIndices(nfine, start + i, stop, factor) IN
                       /\ Len(idx) = ncoarse
                       /\ \A j \in 1..Len(idx) :
                              idx[j] = start + i + (j - 1) * factor

\* a plan with a non-zero start and a factor above 1
C10_Witness ==
    /\ pc = "done" /\ rebin_info.found
    /\ \E k \in 1..Len(rebin_info.plan) :
           rebin_info.plan[k][1] >= 1 /\ rebin_info.plan[k][3] >= 2

(***************************************************************************)
(* Claims about integer_rebin_map (checked under SpecRebin).               *)
(***************************************************************************)
\* number of target cells a plan entry (start, stop, factor) asks for
TargetCells(t) == (t[2] - t[1]) \div t[3]

\* the plan entry stays inside an axis of n cells
EntryInside(t, n) == 0 <= t[1] /\ t[2] <= n

\* 0-based indices of the fine cells under target cell (j0, j1)
BlockCells(info, j0, j1) ==
    { <<info[1][1] + j0 * info[1][3] + i0, info[2][1] + j1 * info[2][3] + i1>> :
        i0 \in 0..(info[1][3] - 1), i1 \in 0..(info[2][3] - 1) }

RECURSIVE SumCells(_, _)
\* the exact sum of the cells of map at the 0-based index pairs in S
SumCells(map, S) ==
    IF S = {} THEN IntNum(0)
    ELSE LET c == CHOOSE x \in S : TRUE IN
         FAdd(0, map[c[1] + 1][c[2] + 1], SumCells(map, S \ {c}))

\* the result has the target shape and every cell is the exact mean of its
\* block of fine cells
IsBlockMean(map, info, res) ==
    /\ NRows(res) = TargetCells(info[1])
    /\ NCols(res) = TargetCells(info[2])
    /\ \A j0 \in 0..(TargetCells(info[1]) - 1), j1 \in 0..(TargetCells(info[2]) - 1) :
           res[j0 + 1][j1 + 1] =
               FDiv(0, SumCells(map, BlockCells(info, j0, j1)),
                    info[1][3] * info[2][3])

\* C4 as stated: for every plan with factor >= 1 and stop - start =
\* factor * c_d the result has c_d cells on axis d, in the input's axis
\* order, and cell (j0, j1) is the unweighted mean of exactly the fine cells
\* start_d + j_d * factor_d + i_d, 0 <= i_d < factor_d.
C4_BlockMeanAnyPlan ==
    pc = "done" => IsBlockMean(prob_map, rebin_info, result)

\* C4 amended: the same, for plans that stay inside the map
\* (0 <= start_d and stop_d <= number of cells on axis d).
C4_BlockMeanInsidePlan ==
    ( /\ pc = "done"
      /\ EntryInside(rebin_info[1], NRows(prob_map))
      /\ EntryInside(rebin_info[2], NCols(prob_map)) ) =>
        IsBlockMean(prob_map, rebin_info, result)

\* the documentation's example: factor 2 on axis 0, factor 1 on axis 1
C4_Witness ==
    /\ pc = "done"
    /\ prob_map = ExampleMap
    /\ rebin_info = << <<0, 4, 2>>, <<0, 2, 1>> >>
    /\ result = << <<IntNum(2), IntNum(3)>>, <<IntNum(6), IntNum(7)>> >>

(***************************************************************************)
(* Claims about get_smoothed_map (checked under SpecSmooth and             *)
(* SpecSmoothFloat).                                                       *)
(***************************************************************************)
\* the (start, factor) pairs with fine_ax[start + j*factor] = coarse_ax[j]
\* for every coarse edge index j
ExactSubbinnings(coarse_ax, fine_ax) ==
    { sf \in (0..(Len(fine_ax) - 1)) \X (1..Len(fine_ax)) :
        /\ sf[1] + (Len(coarse_ax) - 1) * sf[2] + 1 <= Len(fine_ax)
        /\ StridedEdges(fine_ax, sf[1], sf[2], Len(coarse_ax)) = coarse_ax }

\* the plan entry (start, start + (n-1)*factor, factor) of an exact
\* sub-binning of the axis
ExactEntry(coarse_ax, fine_ax) ==
    LET sf == CHOOSE x \in ExactSubbinnings(coarse_ax, fine_ax) : TRUE
    IN  <<sf[1], sf[1] + (Len(coarse_ax) - 1) * sf[2], sf[2]>>

\* C2: when both axes have an exact integer sub-binning, get_smoothed_map
\* returns, cell for cell, integer_rebin_map(map, plan) for the plan of
\* entries (start, start + (n-1)*factor, factor); when some axis has none,
\* it returns the weighted-histogram (sum / count) map.
C2_RebinWhenExactSubbinning ==
    pc = "done" =>
        IF \A k \in 1..2 : ExactSubbinnings(coarse_bins[k], fine_bins[k]) # {}
        THEN result = integer_rebin_map(prec, prob_map,
                          [k \in 1..2 |-> ExactEntry(coarse_bins[k], fine_bins[k])])
        ELSE result = HistogramSmoothing(prec, prob_map, fine_bins[1], fine_bins[2],
                                         coarse_bins[1], coarse_bins[2])

\* C3: smoothing a map to its own binning (coarse axes identical to the
\* fine axes) returns a map of the same shape, equal to the input in every
\* cell.
C3_OwnBinningIsIdentity ==
    (pc = "done" /\ coarse_bins = fine_bins) =>
        /\ NRows(result) = NRows(prob_map)
        /\ NCols(result) = NCols(prob_map)
        /\ \A i \in 1..NRows(prob_map), j \in 1..NCols(prob_map) :
               result[i][j] = prob_map[i][j]

\* a 2 x 2 map with two different values smoothed to its own binning
C3_Witness ==
    /\ pc = "done" /\ coarse_bins = fine_bins
    /\ NRows(prob_map) = 2 /\ NCols(prob_map) = 2
    /\ prob_map[1][1] # prob_map[2][2]
    /\ result = prob_map

\* the center of fine bin k of the axis lies in coarse bin i: at or above
\* the bin's lower edge and below its upper edge, the last bin taking its
\* upper edge too
CenterInBin(fine_ax, k, coarse_ax, i) ==
    LET c == get_bin_centers(fine_ax)[k] IN
    /\ CenterGeq(c, coarse_ax[i])
    /\ \/ ~CenterGeq(c, coarse_ax[i + 1])
       \/ (i = Len(coarse_ax) - 1 /\ CenterEq(c, coarse_ax[i + 1]))

\* 0-based indices of the fine cells whose center point lies in coarse
\* cell (i, j)
FineCellsIn(i, j) ==
    { c \in (0..(NRows(prob_map) - 1)) \X (0..(NCols(prob_map) - 1)) :
        /\ CenterInBin(fine_bins[1], c[1] + 1, coarse_bins[1], i)
        /\ CenterInBin(fine_bins[2], c[2] + 1, coarse_bins[2], j) }

\* C5: on the fallback path every coarse cell (i, j) holds the sum of the
\* fine cells whose center point falls into it divided by their number, and
\* NaN when there is none; the call returns a map (it does not raise).
C5_FallbackIsSumOverCount ==
    (pc = "done" /\ ~rebin_info.found) =>
        /\ NRows(result) = Len(coarse_bins[1]) - 1
        /\ NCols(result) = Len(coarse_bins[2]) - 1
        /\ \A i \in 1..NRows(result), j \in 1..NCols(result) :
               LET cells == FineCellsIn(i, j) IN
               result[i][j] =
                   IF cells = {} THEN NaN
                   ELSE FDiv(0, SumCells(prob_map, cells), Cardinality(cells))

\* a fallback result with an empty coarse cell next to a coarse cell that
\* averages two different fine cells
C5_Witness ==
    /\ pc = "done" /\ ~rebin_info.found
    /\ \E i \in 1..NRows(result), j \in 1..NCols(result) : result[i][j] = NaN
    /\ \E i \in 1..NRows(result), j \in 1..NCols(result) :
           /\ Cardinality(FineCellsIn(i, j)) >= 2
           /\ \E a, b \in FineCellsIn(i, j) :
                  prob_map[a[1] + 1][a[2] + 1] # prob_map[b[1] + 1][b[2] + 1]

(***************************************************************************)
(* Claims about check_binning (checked under SpecCheck).                   *)
(***************************************************************************)
RECURSIVE LeavesOf(_)
\* the leaf maps of a nested dict
LeavesOf(d) ==
    IF d.kind = "map" THEN {d}
    ELSE IF d.kind = "other" THEN {}
    ELSE UNION { LeavesOf(d.values[k]) : k \in 1..Len(d.values) }

\* two leaves of the argument disagree on the axis kind
Disagree(d, label) ==
    \E a, b \in LeavesOf(d) :
        IF label = "energy" THEN ~is_equal_binning(a.ebins, b.ebins)
        ELSE ~is_equal_binning(a.czbins, b.czbins)

\* C7: every call whose argument has at least one leaf map, all leaves with
\* equal energy axes and equal coszen axes, returns the (energy, coszen) axis
\* pair of the argument's own leaves, whatever calls came before it.
C7_ConsistentCallReturnsOwnBinning ==
    ( /\ ncalls >= 1
      /\ LeavesOf(data) # {}
      /\ ~Disagree(data, "energy")
      /\ ~Disagree(data, "coszen") ) =>
        /\ outcome.kind = "return"
        /\ \A l \in LeavesOf(data) :
               /\ is_equal_binning(outcome.ebins, l.ebins)
               /\ is_equal_binning(outcome.czbins, l.czbins)

\* C8: a call whose argument has two leaf maps with unequal axes of one
\* kind raises, and the kind named in the error is one on which two leaves
\* of the argument disagree.
C8_InconsistentCallNamesOwnMismatch ==
    ( /\ ncalls >= 1
      /\ (Disagree(data, "energy") \/ Disagree(data, "coszen")) ) =>
        /\ outcome.kind = "raise"
        /\ outcome.label \in {"energy", "coszen"}
        /\ Disagree(data, outcome.label)

====
